---- MODULE Spec2Model ----
(***************************************************************************)
(* Player feature extraction, clustering and recommendation persistence   *)
(* of steam-arena (backend/app/services/ml_service.py,                    *)
(* backend/app/routers/ml.py, airflow/dags/steam_sync_dag.py).            *)
(*                                                                         *)
(* Conventions                                                             *)
(*  - A nullable column is a sequence: << >> is NULL, <<v>> holds v.       *)
(*  - A Python float is a fixed-point integer in thousandths (Fx).        *)
(*  - A table without a uniqueness rule the model relies on is a set      *)
(*    (ml_player_features) or a bag (recommendations) of row records.     *)
(***************************************************************************)
EXTENDS Integers, Sequences, FiniteSets, Bags, TLC

VARIABLES
    user_games,          \* user_games table: user -> (owned game -> playtimes)
    user_achievements,   \* user_achievements table, as counts per user
    ml_player_features,  \* ml_player_features table: a set of rows
    recommendations,     \* recommendations table (committed): a bag of rows
    session,             \* the open transaction of a save_recommendations call
    now,                 \* the clock read by utcnow() / NOW()
    result               \* outcome of the last operation

vars == <<user_games, user_achievements, ml_player_features, recommendations,
          session, now, result>>

(***************************************************************************)
(* Bounds of the model.                                                    *)
(***************************************************************************)
\* Number of operations in a run (every operation advances the clock).
MaxTime == 5
\* Largest cluster count requested.
MaxClusters == 3
\* operations run on a populated store
StoreSteps == 2

(***************************************************************************)
(* Program constants.                                                      *)
(***************************************************************************)
\* Query(5, ge=2, le=20): the smallest cluster count the router accepts.
MinClusters == 2
\* genre_stats ... LIMIT 5 of the scheduled extraction.
GenreLimit == 5
\* the number of entries of feature_vector
VectorLength == 8

(***************************************************************************)
(* The fixed catalogue: steam_users, games, genres, game_genres.           *)
(***************************************************************************)
Users == {"u1", "u2", "u3"}

Games == {"A", "B", "C", "D"}

GenreNames == {"Action", "RPG", "Indie"}

\* game_genres joined with genres: the genre names of a game.
game_genres(g) ==
    CASE g = "A" -> {"Action"}
      [] g = "B" -> {"Action", "RPG"}
      [] g = "C" -> {"RPG"}
      [] OTHER   -> {"RPG", "Indie"}

\* games.metacritic_score (nullable).
metacritic_score(g) ==
    CASE g = "A" -> <<90>>
      [] g = "B" -> <<80>>
      [] g = "C" -> <<0>>
      [] OTHER   -> << >>

(***************************************************************************)
(* Arithmetic helpers.                                                     *)
(***************************************************************************)
Min(a, b) == IF a <= b THEN a ELSE b

RECURSIVE Gcd(_, _)
Gcd(a, b) == IF b = 0 THEN a ELSE Gcd(b, a % b)

RECURSIVE GcdSet(_)
GcdSet(S) ==
    IF S = {} THEN 0
    ELSE LET x == CHOOSE y \in S : TRUE IN Gcd(x, GcdSet(S \ {x}))

RECURSIVE SumOver(_, _)
\* sum of f[x] for x in S
SumOver(f, S) ==
    IF S = {} THEN 0
    ELSE LET x == CHOOSE y \in S : TRUE IN f[x] + SumOver(f, S \ {x})

\* int -> float
Fx(n) == n * 1000

\* Python a / b on two ints, as a float
FDivInt(a, b) == (a * 1000) \div b

\* float * int
FMulInt(x, n) == x * n

\* 1000 * ln(n), n in 1..16 (numpy / math log)
LnMilli(n) ==
    <<0, 693, 1099, 1386, 1609, 1792, 1946, 2079,
      2197, 2303, 2398, 2485, 2565, 2639, 2708, 2773>>[n]

(***************************************************************************)
(* Upstream data the sync jobs write.                                      *)
(***************************************************************************)
UG(f, w) == [playtime_forever |-> f, playtime_2weeks |-> w]

\* user_games.playtime_forever is nullable: a NULL is kept as Missing.  A
\* comparison of a NULL with a number is not true in SQL, and neither
\* Missing > 0 nor Missing = 0 holds.
Missing == -1

\* what SUM and AVG make of a value: a NULL adds nothing
summed(playtime) == IF playtime = Missing THEN 0 ELSE playtime

NoGames == [g \in {} |-> UG(0, 0)]

\* GetOwnedGames answers used here (minutes).
FetchedLibraries ==
    { ("A" :> UG(0, 0)),
      ("B" :> UG(120, 60)),
      ("A" :> UG(120, 120)) @@ ("C" :> UG(60, 0)) }

NoAchievements == [total |-> 0, unlocked |-> 0]

\* (total, unlocked) counts of user_achievements rows after a sync.
AchievementCounts ==
    { [total |-> 2, unlocked |-> 1], [total |-> 3, unlocked |-> 3] }

(***************************************************************************)
(* MLService._get_genre_playtime_distribution                              *)
(***************************************************************************)
owned(u) == DOMAIN user_games[u]

get_genre_playtime_distribution(u) ==
    LET names == UNION {game_genres(g) : g \in owned(u)}
        forever == [g \in owned(u) |-> summed(user_games[u][g].playtime_forever)]
    IN  [n \in names |->
            SumOver(forever, {g \in owned(u) : n \in game_genres(g)})]

(***************************************************************************)
(* MLService._calculate_genre_diversity: Shannon entropy of the playtime   *)
(* proportions over ln(number of genres). The 1e-10 guard inside the log  *)
(* is below the fixed-point resolution.                                    *)
(***************************************************************************)
EntropyMilli(dist) ==
    LET total == SumOver(dist, DOMAIN dist)
        unit  == GcdSet({dist[n] : n \in DOMAIN dist})
        t     == total \div unit
        term  == [n \in DOMAIN dist |->
                    IF dist[n] > 0
                    THEN (dist[n] \div unit) * (LnMilli(t) - LnMilli(dist[n] \div unit))
                    ELSE 0]
    IN  SumOver(term, DOMAIN dist) \div t

calculate_genre_diversity(dist) ==
    IF DOMAIN dist = {} THEN 0
    ELSE IF SumOver(dist, DOMAIN dist) = 0 THEN 0
    ELSE LET max_entropy == LnMilli(Cardinality(DOMAIN dist))
         IN  IF max_entropy > 0
             THEN (EntropyMilli(dist) * 1000) \div max_entropy
             ELSE 0

\* max(genre_distribution.items(), key=playtime): the first maximal entry in
\* the traversal order of the GROUP BY result, which SQL leaves unspecified,
\* so any maximal genre; NULL for an empty distribution.
FavoriteChoices(dist) ==
    IF DOMAIN dist = {} THEN { << >> }
    ELSE { <<n>> : n \in {m \in DOMAIN dist :
                            \A o \in DOMAIN dist : dist[o] <= dist[m]} }

(***************************************************************************)
(* MLService.extract_user_features                                         *)
(***************************************************************************)
\* Mutant: the quotient is taken whatever the count.
achievement_ratio_unguarded(unlocked, total) ==
    IF total # 0 THEN << FDivInt(unlocked, total) >> ELSE << >>

\* (unlocked / total) if total > 0 else 0 -- `if total_achievements` in the
\* DAG; a one-element sequence, the empty sequence standing for a
\* ZeroDivisionError
achievement_ratio(unlocked, total) ==
    IF total > 0 THEN << FDivInt(unlocked, total) >> ELSE << 0 >>

\* the quotients of an extraction cannot be taken
division_raises(u) ==
    achievement_ratio(user_achievements[u].unlocked,
                      user_achievements[u].total) = << >>

extract_user_features(u, fav) ==
    LET forever == [g \in owned(u) |-> user_games[u][g].playtime_forever]
        recent  == [g \in owned(u) |-> user_games[u][g].playtime_2weeks]
        known == {g \in owned(u) : forever[g] # Missing}
        total_games == Cardinality(owned(u))
        total_playtime == SumOver(forever, known)
        recent_playtime == SumOver(recent, owned(u))
        total_achievements == user_achievements[u].total
        unlocked_achievements == user_achievements[u].unlocked
        genre_distribution == get_genre_playtime_distribution(u)
    IN  [ total_games |-> total_games,
          total_playtime |-> total_playtime,
          avg_playtime_per_game |->
              IF known = {} THEN 0
              ELSE FDivInt(total_playtime, Cardinality(known)),
          games_played |-> Cardinality({g \in owned(u) : forever[g] > 0}),
          games_never_played |-> Cardinality({g \in owned(u) : forever[g] = 0}),
          completion_rate |->
              FMulInt(achievement_ratio(unlocked_achievements,
                                        total_achievements)[1], 100),
          total_achievements |-> total_achievements,
          achievement_rate |->
              achievement_ratio(unlocked_achievements, total_achievements)[1],
          favorite_genre |-> fav,
          genre_diversity_score |-> calculate_genre_diversity(genre_distribution),
          top_genres |-> [format |-> "object",
                          items |-> {<<n, genre_distribution[n]>> :
                                        n \in DOMAIN genre_distribution}],
          activity_score |->
              IF recent_playtime # 0
              THEN Min(FDivInt(recent_playtime, 100), Fx(100))
              ELSE 0 ]

\* Mutant: the sixth component is the achievement rate as a fraction.
feature_vector_of_fraction(f) ==
    << Fx(f.total_games),
       FDivInt(f.total_playtime, 60),
       f.avg_playtime_per_game,
       Fx(f.games_played),
       f.completion_rate,
       f.achievement_rate,
       FMulInt(f.genre_diversity_score, 100),
       f.activity_score >>

\* the feature_vector literal of save_user_features / extract_ml_features
feature_vector_of(f) ==
    << Fx(f.total_games),
       FDivInt(f.total_playtime, 60),
       f.avg_playtime_per_game,
       Fx(f.games_played),
       f.completion_rate,
       FMulInt(f.achievement_rate, 100),
       FMulInt(f.genre_diversity_score, 100),
       f.activity_score >>

\* The columns an extraction writes (every column but cluster_id, updated_at).
FeatureColumns ==
    {"total_games", "total_playtime", "avg_playtime_per_game", "games_played",
     "games_never_played", "completion_rate", "total_achievements",
     "achievement_rate", "favorite_genre", "genre_diversity_score",
     "top_genres", "activity_score"}

RowsOf(u) == {r \in ml_player_features : r.steam_user_id = u}

\* A row of ml_player_features built from extracted features.
NewRow(u, f, fv, cluster, at) ==
    [ steam_user_id |-> u,
      total_games |-> f.total_games,
      total_playtime |-> f.total_playtime,
      avg_playtime_per_game |-> f.avg_playtime_per_game,
      games_played |-> f.games_played,
      games_never_played |-> f.games_never_played,
      completion_rate |-> f.completion_rate,
      total_achievements |-> f.total_achievements,
      achievement_rate |-> f.achievement_rate,
      favorite_genre |-> f.favorite_genre,
      genre_diversity_score |-> f.genre_diversity_score,
      top_genres |-> f.top_genres,
      activity_score |-> f.activity_score,
      feature_vector |-> fv,
      cluster_id |-> cluster,
      updated_at |-> at ]

Outcome(op, u, status, k, run) ==
    [op |-> op, user |-> u, status |-> status, k |-> k, users |-> run]

Tick == now < MaxTime /\ now' = now + 1

(***************************************************************************)
(* Sync jobs of the scheduled pipeline (upstream of the engine).           *)
(***************************************************************************)
\* sync_user_games: upserts one user_games row per game of the answer;
\* rows of games absent from the answer stay.
sync_user_games(u, games_data) ==
    /\ Tick
    /\ user_games' = [user_games EXCEPT ![u] = games_data @@ user_games[u]]
    /\ result' = Outcome("sync_user_games", u, "ok", 0, {})
    /\ UNCHANGED <<user_achievements, ml_player_features, recommendations, session>>

\* sync_user_achievements: returns early without played games, else upserts
\* the user's achievement rows (rows are never removed).
sync_user_achievements(u, counts) ==
    /\ Tick
    /\ IF \E g \in owned(u) : user_games[u][g].playtime_forever > 0
       THEN /\ counts.total >= user_achievements[u].total
            /\ user_achievements' = [user_achievements EXCEPT ![u] = counts]
       ELSE UNCHANGED user_achievements
    /\ result' = Outcome("sync_user_achievements", u, "ok", 0, {})
    /\ UNCHANGED <<user_games, ml_player_features, recommendations, session>>

(***************************************************************************)
(* MLService.save_user_features (POST /ml/users/{id}/extract-features)     *)
(***************************************************************************)
\* Mutant: the lookup of the stored row finds nothing.
existing_features_none(u) == {}

\* db.query(MLPlayerFeatures).filter(steam_user_id == user_id)
existing_features(u) == RowsOf(u)

\* Mutant: the update branch builds the row afresh, cluster_id included.
update_features_reset(row, f, fv, at) ==
    NewRow(row.steam_user_id, f, fv, << >>, at)

\* Mutant: the update branch forgets to assign feature_vector.
update_features_stale(row, f, fv, at) ==
    LET new == NewRow(row.steam_user_id, f, row.feature_vector,
                      row.cluster_id, row.updated_at)
    IN  IF new = row THEN row ELSE [new EXCEPT !.updated_at = at]

\* Mutant: the update branch adds the game count to the stored one.
update_features_accumulate(row, f, fv, at) ==
    [NewRow(row.steam_user_id, f, fv, row.cluster_id, at)
        EXCEPT !.total_games = row.total_games + f.total_games + 1]

\* The update branch: every extracted column and feature_vector are set on
\* the loaded row; cluster_id is not assigned. The ORM emits an UPDATE, and
\* with it onupdate=utcnow for updated_at, only when a value changed.
update_features(row, f, fv, at) ==
    LET new == NewRow(row.steam_user_id, f, fv, row.cluster_id, row.updated_at)
    IN  IF new = row THEN row ELSE [new EXCEPT !.updated_at = at]

\* The insert branch: a new row; cluster_id is not given and stays NULL.
insert_features(u, f, fv, at) == NewRow(u, f, fv, << >>, at)

\* the queries of extract_user_features and the lookup of the stored row, in
\* the order save_user_features runs them; all precede the first assignment
ServiceReads ==
    <<"games_stats", "achievements_stats", "genre_distribution",
      "recent_playtime", "ml_features">>

\* the single statement extract_ml_features reads with
DagReads == <<"user_stats">>

\* Mutant: what was read before the failure is written to the row.
rows_after_failed_read_partial(u, reads, failed) ==
    IF failed = 1 THEN ml_player_features
    ELSE (ml_player_features \ RowsOf(u))
         \cup {[r EXCEPT !.total_games = 0, !.feature_vector = << >>] :
                  r \in RowsOf(u)}

\* the table after the read numbered `failed` has raised: nothing has been
\* assigned, added or committed (the DAG also rolls back)
rows_after_failed_read(u, reads, failed) == ml_player_features

\* an extraction in which one of its reads raises
extraction_fails(op, u, reads) ==
    /\ Tick
    /\ \E failed \in 1 .. Len(reads) :
          ml_player_features' = rows_after_failed_read(u, reads, failed)
    /\ result' = Outcome(op, u, "read_failed", 0, {})
    /\ UNCHANGED <<user_games, user_achievements, recommendations, session>>

save_user_features_completes(u) ==
    /\ Tick
    /\ IF division_raises(u)
       THEN \* ZeroDivisionError in extract_user_features, before any write
            /\ result' = Outcome("save_user_features", u, "ZeroDivisionError", 0, {})
            /\ UNCHANGED ml_player_features
       ELSE /\ \E fav \in FavoriteChoices(get_genre_playtime_distribution(u)) :
                 LET features == extract_user_features(u, fav)
                     feature_vector == feature_vector_of(features)
                     found == existing_features(u)
                 IN  IF found # {}
                     THEN LET ml_features == CHOOSE r \in found : TRUE
                          IN  ml_player_features' =
                                 (ml_player_features \ {ml_features})
                                 \cup {update_features(ml_features, features,
                                                       feature_vector, now)}
                     ELSE ml_player_features' =
                             ml_player_features
                             \cup {insert_features(u, features, feature_vector, now)}
            /\ result' = Outcome("save_user_features", u, "ok", 0, {})
    /\ UNCHANGED <<user_games, user_achievements, recommendations, session>>

save_user_features(u) ==
    \/ save_user_features_completes(u)
    \/ extraction_fails("save_user_features", u, ServiceReads)

(***************************************************************************)
(* extract_ml_features of the steam_user_sync DAG                          *)
(***************************************************************************)
\* genre_stats: ORDER BY genre_playtime DESC LIMIT 5; ties at the cut are
\* resolved by the database, so any admissible selection.
TopGenreSets(dist, limit) ==
    { S \in SUBSET DOMAIN dist :
        /\ Cardinality(S) = Min(limit, Cardinality(DOMAIN dist))
        /\ \A s \in S : \A o \in (DOMAIN dist) \ S : dist[o] <= dist[s] }

\* The derived features of the scheduled job from the query result.
\* favorite_genre is the first entry of the ordered list; the diversity is
\* taken over the listed genres; top_genres is stored as the JSON array.
dag_features(u, top, fav) ==
    LET base == extract_user_features(u, fav)
        dist == get_genre_playtime_distribution(u)
        listed == [n \in top |-> dist[n]]
    IN  [base EXCEPT
            !.genre_diversity_score = calculate_genre_diversity(listed),
            !.top_genres =
                IF top = {} THEN [format |-> "null", items |-> {}]
                ELSE [format |-> "array",
                      items |-> {<<n, dist[n]>> : n \in top}]]

\* AVG(playtime_forever) arrives as a Decimal; `avg_playtime or 0` keeps a
\* non-zero Decimal, and json.dumps(feature_vector) then raises TypeError
\* before the INSERT is executed.
json_serializable(f) == f.avg_playtime_per_game = 0

\* INSERT ... ON CONFLICT (steam_user_id) DO UPDATE SET <every extracted
\* column>, feature_vector, updated_at = NOW(); cluster_id is not listed.
on_conflict_update(row, f, fv, at) ==
    NewRow(row.steam_user_id, f, fv, row.cluster_id, at)

extract_ml_features_completes(u) ==
    /\ Tick
    /\ IF division_raises(u)
       THEN \* ZeroDivisionError, caught, rolled back and raised again
            /\ result' = Outcome("extract_ml_features", u, "ZeroDivisionError", 0, {})
            /\ UNCHANGED ml_player_features
       ELSE \E top \in TopGenreSets(get_genre_playtime_distribution(u), GenreLimit) :
            \E fav \in FavoriteChoices(
                         [n \in top |-> get_genre_playtime_distribution(u)[n]]) :
               LET f == dag_features(u, top, fav)
                   feature_vector == feature_vector_of(f)
               IN  IF ~json_serializable(f)
                   THEN /\ result' = Outcome("extract_ml_features", u, "TypeError", 0, {})
                        /\ UNCHANGED ml_player_features
                   ELSE /\ result' = Outcome("extract_ml_features", u, "ok", 0, {})
                        /\ ml_player_features' =
                             IF RowsOf(u) # {}
                             THEN (ml_player_features \ RowsOf(u))
                                  \cup {on_conflict_update(r, f, feature_vector, now) :
                                           r \in RowsOf(u)}
                             ELSE ml_player_features
                                  \cup {insert_features(u, f, feature_vector, now)}
    /\ UNCHANGED <<user_games, user_achievements, recommendations, session>>

extract_ml_features(u) ==
    \/ extract_ml_features_completes(u)
    \/ extraction_fails("extract_ml_features", u, DagReads)

(***************************************************************************)
(* MLService.cluster_players (POST /ml/cluster)                            *)
(***************************************************************************)
\* KMeans(n_clusters=k).fit_predict: one label in 0..k-1 per sample. The
\* partition itself is left open: any labelling the library may return.
KMeans_fit_predict(user_ids, k) == [user_ids -> 0 .. (k - 1)]

\* Mutant: labels are stored one-based.
assign_cluster_shifted(row, cluster_id, at) ==
    [row EXCEPT !.cluster_id = <<cluster_id + 1>>, !.updated_at = at]

\* Mutant: the standardized matrix overwrites the stored vector.
assign_cluster_rescaled(row, cluster_id, at) ==
    [row EXCEPT !.cluster_id = <<cluster_id>>,
                !.feature_vector = [i \in 1 .. Len(row.feature_vector) |-> 0],
                !.total_games = row.total_games + 1,
                !.updated_at = at]

\* ml_features.cluster_id = int(cluster_id); the UPDATE, and onupdate of
\* updated_at, is emitted only when the label differs from the loaded one.
assign_cluster(row, cluster_id, at) ==
    IF row.cluster_id = <<cluster_id>> THEN row
    ELSE [row EXCEPT !.cluster_id = <<cluster_id>>, !.updated_at = at]

cluster_players(n_clusters) ==
    /\ Tick
    /\ LET all_features == ml_player_features
           run == {f \in all_features : f.feature_vector # << >>}
           user_ids == {f.steam_user_id : f \in run}
       IN  IF Cardinality(all_features) < n_clusters
           THEN \* "Not enough users for k clusters"
                /\ result' = Outcome("cluster_players", "", "error", n_clusters, {})
                /\ UNCHANGED ml_player_features
           ELSE IF run = {}
           THEN \* "No feature vectors found"
                /\ result' = Outcome("cluster_players", "", "error", n_clusters, {})
                /\ UNCHANGED ml_player_features
           ELSE IF Cardinality(run) < n_clusters
           THEN \* KMeans raises ValueError: n_samples should be >= n_clusters
                /\ result' = Outcome("cluster_players", "", "ValueError", n_clusters, {})
                /\ UNCHANGED ml_player_features
           ELSE \E clusters \in KMeans_fit_predict(user_ids, n_clusters) :
                /\ ml_player_features' =
                     { IF r.steam_user_id \in user_ids
                       THEN assign_cluster(r, clusters[r.steam_user_id], now)
                       ELSE r : r \in ml_player_features }
                /\ result' = Outcome("cluster_players", "", "ok", n_clusters, user_ids)
    /\ UNCHANGED <<user_games, user_achievements, recommendations, session>>

(***************************************************************************)
(* Recommenders.  A recommendation is                                      *)
(*   [game, score, recommendation_type, reason]                            *)
(* with the score in thousandths and the reason a sequence of parts        *)
(* [text, genres] (the hybrid recommender joins two reasons with "; ").   *)
(***************************************************************************)
RECURSIVE ISqrtFrom(_, _)
ISqrtFrom(n, r) ==
    IF r * r <= n THEN r ELSE ISqrtFrom(n, (r + n \div r) \div 2)

\* floor of the square root
ISqrt(n) == IF n = 0 THEN 0 ELSE ISqrtFrom(n, Min(n, 46340))

Dot(a, b) ==
    LET prod == [i \in 1 .. Len(a) |-> (a[i] \div 100) * (b[i] \div 100)]
    IN  SumOver(prod, 1 .. Len(a))

\* sklearn cosine_similarity of two vectors, in thousandths; a zero vector
\* is left unnormalized, which gives similarity 0.
cosine_similarity(a, b) ==
    LET na == ISqrt(Dot(a, a))
        nb == ISqrt(Dot(b, b))
    IN  IF na = 0 \/ nb = 0 THEN 0
        ELSE Min(((Dot(a, b) \div na) * 1000) \div nb, 1000)

\* 1000 * np.log1p(minutes) for the playtimes of the libraries in use
log1p(minutes) ==
    CASE minutes = 61  -> 4127
      [] minutes = 90  -> 4511
      [] minutes = 120 -> 4796
      [] minutes = 300 -> 5707
      [] OTHER -> 1000 * 6

\* float * float
FMul(x, y) == (x * y) \div 1000

Rec(g, score, type, reason) ==
    [game |-> g, score |-> score, recommendation_type |-> type, reason |-> reason]

ReasonPart(text, genres) == [text |-> text, genres |-> genres]

\* The orders a descending sort by score can give a set of entries whose
\* prior order comes from unordered queries: ties in any order.
RECURSIVE SortedSeqs(_)
SortedSeqs(S) ==
    IF S = {} THEN { << >> }
    ELSE UNION { { <<x>> \o t : t \in SortedSeqs(S \ {x}) } :
                 x \in {y \in S : \A z \in S : z.score <= y.score} }

\* sorted(seq, key=score, reverse=True): stable, equal scores keep their order
RECURSIVE StableSortDesc(_)
StableSortDesc(seq) ==
    IF seq = << >> THEN << >>
    ELSE LET rest == StableSortDesc(SubSeq(seq, 1, Len(seq) - 1))
             x == seq[Len(seq)]
             before == Cardinality({i \in 1 .. Len(rest) : rest[i].score >= x.score})
         IN  SubSeq(rest, 1, before) \o <<x>> \o SubSeq(rest, before + 1, Len(rest))

\* list[:n]
Take(seq, n) == SubSeq(seq, 1, Min(n, Len(seq)))

\* The subsets a "sort by key descending, keep the first `limit`" can keep.
TopSubsets(S, key(_), limit) ==
    { T \in SUBSET S :
        /\ Cardinality(T) = Min(limit, Cardinality(S))
        /\ \A t \in T : \A o \in S \ T : key(o) <= key(t) }

\* similarities[:10]
PeerLimit == 10
\* .limit(50) of the fallback peer query
FallbackLimit == 50
\* UserGame.playtime_forever > 60
MinPlaytime == 60
\* [:5] of the content-based top genres
TopGenreCount == 5
\* .limit(50) of the content-based candidate query
CandidateLimit == 50
\* (game.metacritic_score or 50)
DefaultMetacritic == 50

(***************************************************************************)
(* MLService.get_collaborative_recommendations: the lists it can return.   *)
(***************************************************************************)
\* Mutant: the peers are drawn from all other rows, whatever their cluster.
similar_users_any_cluster(user_features) ==
    LET others == {f \in ml_player_features :
                      f.steam_user_id # user_features.steam_user_id}
    IN  { T \in SUBSET others :
             Cardinality(T) = Min(FallbackLimit, Cardinality(others)) }

\* rows sharing the target's cluster_id (== None is rendered IS NULL),
\* or, when there are none, up to 50 of all other rows
similar_users(user_features) ==
    LET u == user_features.steam_user_id
        same == {f \in ml_player_features :
                    /\ f.cluster_id = user_features.cluster_id
                    /\ f.steam_user_id # u}
        others == {f \in ml_player_features : f.steam_user_id # u}
    IN  IF same # {} THEN {same}
        ELSE { T \in SUBSET others :
                  Cardinality(T) = Min(FallbackLimit, Cardinality(others)) }

\* Mutant: the games of the target are not excluded.
peer_candidates_owned(u, peer) ==
    {g \in owned(peer) : user_games[peer][g].playtime_forever > MinPlaytime}

\* Mutant: a game played for exactly the threshold counts as well.
peer_candidates_at_least(u, peer) ==
    {g \in owned(peer) :
        /\ user_games[peer][g].playtime_forever >= MinPlaytime
        /\ g \notin owned(u)}

\* the candidate games of one peer: played above the threshold and not owned
\* by the target
peer_candidates(u, peer) ==
    {g \in owned(peer) :
        /\ user_games[peer][g].playtime_forever > MinPlaytime
        /\ g \notin owned(u)}

\* game_scores: similarity * log1p(playtime) summed over the kept peers
game_scores(u, user_features, top_similar) ==
    LET sim(f) == cosine_similarity(user_features.feature_vector, f.feature_vector)
        games == UNION {peer_candidates(u, f.steam_user_id) : f \in top_similar}
        part(g) == [f \in top_similar |->
                      IF g \in peer_candidates(u, f.steam_user_id)
                      THEN FMul(sim(f),
                                log1p(user_games[f.steam_user_id][g].playtime_forever))
                      ELSE 0]
    IN  [g \in games |-> SumOver(part(g), top_similar)]

\* not user_features or not user_features.feature_vector
NoVector(u) == RowsOf(u) = {} \/ \A f \in RowsOf(u) : f.feature_vector = << >>

\* Mutant: a player without features is given a stock list.
no_features_stock ==
    [peers |-> {},
     recs |-> << Rec("D", 1000, "collaborative",
                     << ReasonPart("Based on games played by similar users", {}) >>) >>]

\* return []
no_features_result == [peers |-> {}, recs |-> << >>]

\* one way the method can run: the peers it keeps and the list it returns
collaborative_runs(u, n_recommendations) ==
    IF NoVector(u) THEN { no_features_result }
    ELSE LET user_features == CHOOSE f \in RowsOf(u) : f.feature_vector # << >>
             sim(f) == cosine_similarity(user_features.feature_vector,
                                         f.feature_vector)
         IN  UNION { UNION {
               LET scores == game_scores(u, user_features, top_similar)
               IN  { [peers |-> {f.steam_user_id : f \in top_similar},
                      recs |-> Take(sorted, n_recommendations)] :
                       sorted \in SortedSeqs(
                          { Rec(g, scores[g], "collaborative",
                                << ReasonPart("Based on games played by similar users", {}) >>) :
                            g \in DOMAIN scores }) } :
               top_similar \in TopSubsets({f \in pool : f.feature_vector # << >>},
                                          sim, PeerLimit) } :
               pool \in similar_users(user_features) }

get_collaborative_recommendations(u, n_recommendations) ==
    { run.recs : run \in collaborative_runs(u, n_recommendations) }

(***************************************************************************)
(* MLService.get_content_based_recommendations: the lists it can return.   *)
(***************************************************************************)
\* match_count * (game.metacritic_score or 50) / 100
content_score(g, top_genre_names) ==
    LET match_count == Cardinality(game_genres(g) \cap top_genre_names)
        metacritic == IF metacritic_score(g)[1] # 0 THEN metacritic_score(g)[1]
                      ELSE DefaultMetacritic
    IN  (match_count * metacritic * 1000) \div 100

\* Mutant: the games of the target stay among the candidates.
potential_games_with_owned(u, top_genre_names) ==
    {g \in Games :
        /\ game_genres(g) \cap top_genre_names # {}
        /\ metacritic_score(g) # << >>}

\* games tagged with a top genre, not owned, with a metacritic score
potential_games(u, top_genre_names) ==
    {g \in Games :
        /\ game_genres(g) \cap top_genre_names # {}
        /\ g \notin owned(u)
        /\ metacritic_score(g) # << >>}

\* order_by(Game.metacritic_score.desc()).limit(50).all(): the orders the
\* query can return its rows in
query_orders(games) ==
    { Take(seq, CandidateLimit) :
        seq \in SortedSeqs({[game |-> g, score |-> metacritic_score(g)[1]] :
                               g \in games}) }

get_content_based_recommendations(u, n_recommendations) ==
    LET genre_dist == get_genre_playtime_distribution(u)
    IN  IF DOMAIN genre_dist = {} THEN { << >> }
        ELSE UNION { {
               LET scored ==
                     [i \in 1 .. Len(rows) |->
                        Rec(rows[i].game,
                            content_score(rows[i].game, top_genre_names),
                            "content_based",
                            << ReasonPart("Matches your favorite genres",
                                          game_genres(rows[i].game)
                                             \cap top_genre_names) >>)]
               IN  Take(StableSortDesc(scored), n_recommendations) :
               rows \in query_orders(potential_games(u, top_genre_names)) } :
               top_genre_names \in TopGenreSets(genre_dist, TopGenreCount) }

(***************************************************************************)
(* MLService.get_hybrid_recommendations                                    *)
(***************************************************************************)
InList(seq, g) == \E i \in 1 .. Len(seq) : seq[i].game = g

Entry(seq, g) == seq[CHOOSE i \in 1 .. Len(seq) : seq[i].game = g]

\* Mutant: a game of both lists keeps its collaborative entry.
merge_recommendations_first(collaborative, content_based) ==
    LET second == SelectSeq(content_based, LAMBDA rec : ~InList(collaborative, rec.game))
    IN  [i \in 1 .. Len(collaborative) |->
            [collaborative[i] EXCEPT !.recommendation_type = "hybrid"]]
        \o [i \in 1 .. Len(second) |->
              [second[i] EXCEPT !.recommendation_type = "hybrid"]]

\* all_recs.values() after both loops, in insertion order, for one pair of
\* source lists
merge_recommendations(collaborative, content_based) ==
    LET first == [i \in 1 .. Len(collaborative) |->
                    LET g == collaborative[i].game
                    IN  IF InList(content_based, g)
                        THEN Rec(g, collaborative[i].score + Entry(content_based, g).score,
                                 "hybrid",
                                 collaborative[i].reason \o Entry(content_based, g).reason)
                        ELSE [collaborative[i] EXCEPT !.recommendation_type = "hybrid"]]
        second == SelectSeq(content_based, LAMBDA rec : ~InList(collaborative, rec.game))
    IN  first \o [i \in 1 .. Len(second) |->
                    [second[i] EXCEPT !.recommendation_type = "hybrid"]]

\* Mutant: all_recs holds the entries of the source lists themselves, so
\* the updates of the fusion show in the two lists.
fuse_in_place(collaborative, content_based) ==
    LET all_recs == merge_recommendations(collaborative, content_based)
    IN  [collaborative |->
            [i \in 1 .. Len(collaborative) |-> Entry(all_recs, collaborative[i].game)],
         content_based |->
            [i \in 1 .. Len(content_based) |->
               IF InList(collaborative, content_based[i].game)
               THEN content_based[i]
               ELSE Entry(all_recs, content_based[i].game)],
         all_recs |-> all_recs]

\* the two source lists and all_recs.values() after both loops: every entry
\* of all_recs is a fresh dict ({**rec, ...}), the lists keep their entries
fuse(collaborative, content_based) ==
    [collaborative |-> collaborative,
     content_based |-> content_based,
     all_recs |-> merge_recommendations(collaborative, content_based)]

\* Mutant: the merged set is cut in insertion order, without the sort.
hybrid_run_unsorted(run, content_based, n_recommendations) ==
    LET fused == fuse(run.recs, content_based)
    IN  [peers |-> run.peers,
         collaborative |-> fused.collaborative,
         content_based |-> fused.content_based,
         recs |-> Take(fused.all_recs, n_recommendations)]

\* one way the method can run: its two source lists (with the peers the
\* collaborative one kept) and the list it returns
hybrid_run(run, content_based, n_recommendations) ==
    LET fused == fuse(run.recs, content_based)
    IN  [peers |-> run.peers,
         collaborative |-> fused.collaborative,
         content_based |-> fused.content_based,
         recs |-> Take(StableSortDesc(fused.all_recs), n_recommendations)]

hybrid_runs(u, n_recommendations) ==
    { hybrid_run(run, content_based, n_recommendations) :
        run \in collaborative_runs(u, n_recommendations),
        content_based \in get_content_based_recommendations(u, n_recommendations) }

get_hybrid_recommendations(u, n_recommendations) ==
    { run.recs : run \in hybrid_runs(u, n_recommendations) }

(***************************************************************************)
(* MLService.save_recommendations and its callers.                         *)
(*                                                                         *)
(* The call runs in the transaction of its request's session: the DELETE  *)
(* and the added rows stay private to the session until commit.  The      *)
(* session record keeps, for the last call, the rows its DELETE removed   *)
(* and the rows it added.                                                 *)
(***************************************************************************)
NoSession ==
    [pc |-> "idle", user |-> "", caller |-> "", type |-> "",
     collaborative |-> << >>, content_based |-> << >>,
     recs |-> << >>, pending |-> << >>,
     deleted |-> EmptyBag, added |-> << >>]

RECURSIVE SeqToBag(_)
SeqToBag(seq) ==
    IF seq = << >> THEN EmptyBag
    ELSE SetToBag({Head(seq)}) (+) SeqToBag(Tail(seq))

\* the rows of one player in a bag of Recommendation rows
RecsOf(table, u) ==
    LET rows == {r \in BagToSet(table) : r.steam_user_id = u}
    IN  [r \in rows |-> table[r]]

\* Recommendation(steam_user_id=..., game_id=..., ...)
RecommendationRow(u, rec) ==
    [steam_user_id |-> u, game_id |-> rec.game,
     recommendation_type |-> rec.recommendation_type,
     score |-> rec.score, reason |-> rec.reason]

\* Mutant: the DELETE is committed on its own.
committed_after_delete_autocommit(u) ==
    recommendations (-) RecsOf(recommendations, u)

\* query(Recommendation).filter(steam_user_id == user_id).delete(): the
\* committed table while the DELETE is uncommitted in the session
committed_after_delete(u) == recommendations

\* the first statement of save_recommendations
save_begin(u, request, recs) ==
    /\ session.pc # "open"
    /\ session' = [request EXCEPT
                      !.pc = "open", !.user = u, !.recs = recs, !.pending = recs,
                      !.deleted = RecsOf(recommendations, u), !.added = << >>]
    /\ recommendations' = committed_after_delete(u)

\* one turn of the loop: the row is built and added to the session
save_add ==
    /\ session.pc = "open" /\ session.pending # << >>
    /\ session' = [session EXCEPT
                      !.pending = Tail(session.pending),
                      !.added = Append(session.added,
                                       RecommendationRow(session.user,
                                                         Head(session.pending)))]
    /\ result' = Outcome("save_recommendations", session.user, "adding", 0, {})
    /\ UNCHANGED <<user_games, user_achievements, ml_player_features,
                   recommendations, now>>

\* Mutant: the new rows are merged into the stored ones.
commit_rows_merged(table, deleted, added) == table (+) SeqToBag(added)

\* Mutant: the stored rows of the games being saved again are kept.
commit_rows_appended(table, deleted, added) ==
    LET games == {added[i].game_id : i \in 1 .. Len(added)}
        kept == {r \in BagToSet(deleted) : r.game_id \in games}
    IN  (table (-) [r \in BagToSet(deleted) \ kept |-> deleted[r]])
        (+) SeqToBag(added)

\* Mutant: only the stored rows of the types being saved are replaced.
commit_rows_by_type(table, deleted, added) ==
    LET types == {added[i].recommendation_type : i \in 1 .. Len(added)}
        gone == {r \in BagToSet(deleted) : r.recommendation_type \in types}
    IN  (table (-) [r \in gone |-> deleted[r]]) (+) SeqToBag(added)

\* the table after self.db.commit(): deleted rows gone, added rows in
commit_rows(table, deleted, added) == (table (-) deleted) (+) SeqToBag(added)

save_commit ==
    /\ session.pc = "open" /\ session.pending = << >>
    /\ recommendations' = commit_rows(recommendations, session.deleted, session.added)
    /\ session' = [session EXCEPT !.pc = "committed"]
    /\ result' = Outcome("save_recommendations", session.user, "ok", 0, {})
    /\ UNCHANGED <<user_games, user_achievements, ml_player_features, now>>

\* An exception before the commit (building a row, flushing, committing)
\* leaves the call; the request's session is closed and its transaction
\* rolled back.
save_fail ==
    /\ session.pc = "open"
    /\ session' = [session EXCEPT !.pc = "rolled_back"]
    /\ result' = Outcome("save_recommendations", session.user, "exception", 0, {})
    /\ UNCHANGED <<user_games, user_achievements, ml_player_features,
                   recommendations, now>>

\* a direct call of the service method with any list
save_recommendations(u, recs) ==
    /\ save_begin(u, [NoSession EXCEPT !.caller = "save_recommendations"], recs)
    /\ result' = Outcome("save_recommendations", u, "deleting", 0, {})
    /\ UNCHANGED <<user_games, user_achievements, ml_player_features, now>>

\* GET /ml/users/{id}/saved-recommendations: the rows the query returns
get_saved_recommendations(u) == RecsOf(recommendations, u)

RecommendationTypes == {"collaborative", "content_based", "hybrid"}

\* GET /ml/users/{id}/recommendations
\* the ways the recommender of a request can run
request_runs(u, recommendation_type, limit) ==
    CASE recommendation_type = "collaborative"
           -> { [peers |-> run.peers, collaborative |-> run.recs,
                 content_based |-> << >>, recs |-> run.recs] :
                run \in collaborative_runs(u, limit) }
      [] recommendation_type = "content_based"
           -> { [peers |-> {}, collaborative |-> << >>,
                 content_based |-> recs, recs |-> recs] :
                recs \in get_content_based_recommendations(u, limit) }
      [] OTHER -> hybrid_runs(u, limit)

get_recommendations(u, recommendation_type, limit) ==
    /\ session.pc # "open"
    /\ \E run \in request_runs(u, recommendation_type, limit) :
          LET request == [NoSession EXCEPT
                             !.caller = "get_recommendations",
                             !.type = recommendation_type,
                             !.collaborative = run.collaborative,
                             !.content_based = run.content_based]
          IN  /\ result' = Outcome("get_recommendations", u, "ok", limit, run.peers)
              /\ IF run.recs # << >>
                 THEN save_begin(u, request, run.recs)
                 ELSE /\ session' = [request EXCEPT !.pc = "skipped", !.user = u]
                      /\ UNCHANGED recommendations
    /\ UNCHANGED <<user_games, user_achievements, ml_player_features, now>>

(***************************************************************************)
(* The engine from an empty store.                                         *)
(***************************************************************************)

Init ==
    /\ user_games = [u \in Users |-> NoGames]
    /\ user_achievements = [u \in Users |-> NoAchievements]
    /\ ml_player_features = {}
    /\ recommendations = EmptyBag
    /\ session = NoSession
    /\ now = 0
    /\ result = Outcome("init", "", "ok", 0, {})

Next ==
    \/ \E u \in Users : \E games_data \in FetchedLibraries :
          sync_user_games(u, games_data)
    \/ \E u \in Users : \E counts \in AchievementCounts :
          sync_user_achievements(u, counts)
    \/ \E u \in Users : save_user_features(u)
    \/ \E u \in Users : extract_ml_features(u)
    \/ \E k \in MinClusters .. MaxClusters : cluster_players(k)

Spec == Init /\ [][Next]_vars

ExtractionOps == {"save_user_features", "extract_ml_features"}

(***************************************************************************)
(* The engine over a store that other writers share.                       *)
(*                                                                         *)
(* ml_player_features.feature_vector is a nullable column and             *)
(* cluster_players, get_collaborative_recommendations test it before      *)
(* use: the store may hold rows without a vector.  The initial stores     *)
(* here hold, for each player, no row, an extracted row, or a row whose   *)
(* vector is NULL, labelled or not, and possibly a stored recommendation. *)
(***************************************************************************)
\* the libraries of the players of the populated stores
StoredLibraries ==
    ("u1" :> (("A" :> UG(120, 120)) @@ ("C" :> UG(60, 0))))
    @@ ("u2" :> ("B" :> UG(120, 60)))
    @@ ("u3" :> ("A" :> UG(0, 0)))

\* the rows one player can have: built as save_user_features builds them,
\* with or without the vector, with any of the given labels
StoredRows(u, labels) ==
    UNION { LET f == extract_user_features(u, fav)
            IN  { NewRow(u, f, fv, cluster, 0) :
                    fv \in {feature_vector_of(f), << >>}, cluster \in labels } :
            fav \in FavoriteChoices(get_genre_playtime_distribution(u)) }

\* the stores with at most one row per player (steam_user_id is unique)
Stores(labels) ==
    LET rows(u) == { {} } \cup { {r} : r \in StoredRows(u, labels) }
    IN  { r1 \cup r2 \cup r3 :
            r1 \in rows("u1"), r2 \in rows("u2"), r3 \in rows("u3") }

InitStore ==
    /\ user_games = StoredLibraries
    /\ user_achievements = [u \in Users |-> NoAchievements]
    /\ ml_player_features \in Stores({<< >>, <<1>>})
    /\ recommendations \in
          { EmptyBag,
            SetToBag({RecommendationRow("u1",
                        Rec("B", 1600, "content_based",
                            << ReasonPart("Matches your favorite genres",
                                          {"Action", "RPG"}) >>))}) }
    /\ session = NoSession
    /\ now = MaxTime - StoreSteps
    /\ result = Outcome("init", "", "ok", 0, {})

SpecStore == InitStore /\ [][Next]_vars

(***************************************************************************)
(* MLService.save_recommendations called with any list, a step at a time. *)
(***************************************************************************)
\* longest list handed to save_recommendations
MaxRecs == 2

SavedPlayers == {"u1", "u2"}

\* the entries of the lists: two games, a game with two scores (a list may
\* name a game twice), and a zero score
RecEntries ==
    { Rec("A", 900, "content_based",
          << ReasonPart("Matches your favorite genres", {"Action"}) >>),
      Rec("B", 1600, "hybrid",
          << ReasonPart("Matches your favorite genres", {"Action", "RPG"}) >>),
      Rec("B", 0, "collaborative",
          << ReasonPart("Based on games played by similar users", {}) >>) }

RecLists == UNION { [1 .. n -> RecEntries] : n \in 0 .. MaxRecs }

NextSave ==
    \/ \E u \in SavedPlayers : \E recs \in RecLists : save_recommendations(u, recs)
    \/ save_add
    \/ save_commit
    \/ save_fail

SpecSave == Init /\ [][NextSave]_vars

(***************************************************************************)
(* Recommendation requests over a population with extracted features.     *)
(***************************************************************************)
\* the limit parameter of a request: Query(10, ge=1, le=50)
Limits == {1, 10}

\* A player owning A and B, and three peers: one played A and C for two
\* hours each, one played C for five hours, one played D for half an hour.
PeerScenario ==
    ("u1" :> (("A" :> UG(120, 120)) @@ ("B" :> UG(120, 60))))
    @@ ("u2" :> (("A" :> UG(120, 0)) @@ ("C" :> UG(120, 0))))
    @@ ("u3" :> ("C" :> UG(300, 0)))
    @@ ("u4" :> ("D" :> UG(30, 0)))

\* libraries after some syncs
Populations ==
    { StoredLibraries,
      ("u1" :> NoGames)
         @@ ("u2" :> ("B" :> UG(120, 60)))
         @@ ("u3" :> (("A" :> UG(120, 120)) @@ ("C" :> UG(60, 0)))),
      ("u1" :> ("B" :> UG(120, 60)))
         @@ ("u2" :> ("B" :> UG(120, 60)))
         @@ ("u3" :> ("A" :> UG(0, 0))),
      PeerScenario }

\* the rows a further player can have
PeerRows(u, labels) ==
    IF u \in DOMAIN user_games
    THEN { {} } \cup { {r} : r \in StoredRows(u, labels) }
    ELSE { {} }

\* the players with a row have the row extraction gives them, clustered or
\* not; in one population the row of u1 may lack its vector (the column is
\* nullable and the recommender tests it)
InitRec ==
    /\ user_games \in Populations
    /\ user_achievements = [u \in DOMAIN user_games |-> NoAchievements]
    /\ ml_player_features \in
          {store \cup peer :
              store \in Stores({<< >>, <<0>>}),
              peer \in PeerRows("u4", {<< >>, <<0>>})}
    /\ \A r \in ml_player_features :
          r.feature_vector = << >>
             => r.steam_user_id = "u1" /\ user_games = StoredLibraries
    /\ recommendations = EmptyBag
    /\ session = NoSession
    /\ now = 0
    /\ result = Outcome("init", "", "ok", 0, {})

NextRec ==
    \/ \E u \in SavedPlayers : \E recommendation_type \in RecommendationTypes :
          \E limit \in Limits : get_recommendations(u, recommendation_type, limit)
    \/ save_add
    \/ save_commit
    \/ save_fail

SpecRec == InitRec /\ [][NextRec]_vars

(***************************************************************************)
(* C4: after cluster_players(k) completes on P >= k players with vectors,  *)
(* every player of the run has exactly one row, whose cluster_id is in    *)
(* 0..k-1, and at most k distinct labels are in use among them.           *)
(***************************************************************************)
C4_LabelsInRange ==
    (result.op = "cluster_players" /\ result.status = "ok") =>
        /\ Cardinality(result.users) >= result.k
        /\ \A u \in result.users :
              /\ Cardinality(RowsOf(u)) = 1
              /\ \A r \in RowsOf(u) :
                    /\ Len(r.cluster_id) = 1
                    /\ r.cluster_id[1] \in 0 .. (result.k - 1)
        /\ Cardinality({r.cluster_id :
                          r \in UNION {RowsOf(u) : u \in result.users}}) <= result.k

C4_Witness ==
    /\ result.op = "cluster_players" /\ result.status = "ok"
    /\ result.k = MaxClusters
    /\ Cardinality(result.users) = MaxClusters
    /\ Cardinality({r.cluster_id : r \in ml_player_features}) = MaxClusters

(***************************************************************************)
(* C7: neither extraction path changes a cluster_id: an existing row      *)
(* keeps its label, and a first extraction creates the row with NULL.     *)
(***************************************************************************)
C7_ExtractionKeepsCluster ==
    [][ (result'.op \in ExtractionOps) =>
          \A r2 \in ml_player_features' :
             IF RowsOf(r2.steam_user_id) = {}
             THEN r2.cluster_id = << >>
             ELSE \A r \in RowsOf(r2.steam_user_id) : r2.cluster_id = r.cluster_id
      ]_vars

C7_Witness ==
    /\ result.op = "extract_ml_features" /\ result.status = "ok"
    /\ \E r \in RowsOf(result.user) :
          /\ r.cluster_id # << >>
          /\ r.updated_at = now - 1
    /\ \E r \in ml_player_features :
          r.cluster_id = << >> /\ r.updated_at = now - 2

RepeatedSave ==
    /\ result.op = "save_user_features"
    /\ result.status = "ok"
    /\ result'.op = "save_user_features"
    /\ result'.status = "ok"
    /\ result'.user = result.user

SameColumns(r, r2, columns) ==
    /\ r2.feature_vector = r.feature_vector
    /\ \A c \in columns : r2[c] = r[c]

C9_Idempotent ==
    [][ RepeatedSave =>
          \A r \in RowsOf(result.user) :
             \A r2 \in {x \in ml_player_features' : x.steam_user_id = result.user} :
                SameColumns(r, r2, FeatureColumns)
      ]_vars

(***************************************************************************)
(* C9 amended: the vector and every derived column but favorite_genre     *)
(* are left as the first run left them; favorite_genre is, after each     *)
(* run, a genre of maximal summed playtime (or NULL without genres).      *)
(***************************************************************************)
C9_IdempotentUpToTie ==
    [][ RepeatedSave =>
          \A r \in RowsOf(result.user) :
             \A r2 \in {x \in ml_player_features' : x.steam_user_id = result.user} :
                /\ SameColumns(r, r2, FeatureColumns \ {"favorite_genre"})
                /\ r2.favorite_genre \in
                      FavoriteChoices(get_genre_playtime_distribution(result.user))
                /\ r.favorite_genre \in
                      FavoriteChoices(get_genre_playtime_distribution(result.user))
      ]_vars

C9_Witness ==
    /\ result.op = "save_user_features"
    /\ \E r \in RowsOf(result.user) :
          /\ r.updated_at < now - 1
          /\ r.total_playtime > 0
          /\ r.genre_diversity_score > 0

(***************************************************************************)
(* C10: at most one ml_player_features row per player, and exactly one    *)
(* for the player of a successful extraction.                              *)
(***************************************************************************)
C10_OneRowPerPlayer ==
    /\ \A u \in Users : Cardinality(RowsOf(u)) <= 1
    /\ (result.op \in ExtractionOps /\ result.status = "ok") =>
          Cardinality(RowsOf(result.user)) = 1

C10_Witness ==
    /\ result.op = "save_user_features"
    /\ \E r \in RowsOf(result.user) :
          /\ r.cluster_id # << >>
          /\ r.updated_at = now - 1
          /\ r.total_games = 1
    /\ \E r \in ml_player_features : r.top_genres.format = "null"

(***************************************************************************)
(* C5: when fewer than k rows hold a feature vector, cluster_players(k)    *)
(* ends with the insufficient-data error outcome and leaves every         *)
(* cluster_id as it was, also when there are at least k rows of which     *)
(* some hold no vector.                                                   *)
(***************************************************************************)
WithVector(rows) == {f \in rows : f.feature_vector # << >>}

ClusterStep == result'.op = "cluster_players"

ClusterColumns == FeatureColumns \cup {"feature_vector", "updated_at"}

C6_OnlyClusterId ==
    [][ ClusterStep
          => /\ recommendations' = recommendations
             /\ user_games' = user_games
             /\ user_achievements' = user_achievements
             /\ {r.steam_user_id : r \in ml_player_features'}
                   = {r.steam_user_id : r \in ml_player_features}
             /\ \A r \in ml_player_features :
                   \A r2 \in {x \in ml_player_features' :
                                x.steam_user_id = r.steam_user_id} :
                      /\ \A c \in ClusterColumns : r2[c] = r[c]
                      /\ r.steam_user_id \notin result'.users => r2 = r
      ]_vars

(***************************************************************************)
(* C6 amended: a clustering run changes nothing but the cluster_id of the *)
(* rows taking part and, on the rows whose cluster_id it changes, the     *)
(* updated_at timestamp; a row whose label is kept is left whole.         *)
(***************************************************************************)
C6_OnlyClusterIdAndStamp ==
    [][ ClusterStep
          => /\ recommendations' = recommendations
             /\ user_games' = user_games
             /\ user_achievements' = user_achievements
             /\ {r.steam_user_id : r \in ml_player_features'}
                   = {r.steam_user_id : r \in ml_player_features}
             /\ \A r \in ml_player_features :
                   \A r2 \in {x \in ml_player_features' :
                                x.steam_user_id = r.steam_user_id} :
                      /\ \A c \in ClusterColumns \ {"updated_at"} : r2[c] = r[c]
                      /\ r.steam_user_id \notin result'.users => r2 = r
                      /\ r2.cluster_id = r.cluster_id => r2 = r
      ]_vars

\* A run over two players has relabelled one of them while a third row,
\* without a vector, keeps its label, and a recommendation is stored.
C6_Witness ==
    /\ result.op = "cluster_players" /\ result.status = "ok"
    /\ Cardinality(result.users) = 2
    /\ \E r \in ml_player_features :
          /\ r.steam_user_id \in result.users
          /\ r.updated_at = now - 1
          /\ r.feature_vector # << >>
    /\ \E r \in ml_player_features :
          /\ r.steam_user_id \notin result.users
          /\ r.feature_vector = << >>
          /\ r.cluster_id = <<1>>
    /\ recommendations # EmptyBag

(***************************************************************************)
(* C1: save_recommendations(player, L1) followed by                       *)
(* save_recommendations(player, L2) leaves exactly the rows of L2 stored  *)
(* for the player, and no step of a save touches another player's rows.   *)
(***************************************************************************)
\* the rows of a list of recommendations, as a bag
RowsOfList(u, recs) ==
    SeqToBag([i \in 1 .. Len(recs) |-> RecommendationRow(u, recs[i])])

C1_SecondSetOnly ==
    [][ /\ \A v \in Users \ {session'.user} :
              RecsOf(recommendations', v) = RecsOf(recommendations, v)
        /\ session'.pc = "committed"
              => RecsOf(recommendations', session'.user)
                    = RowsOfList(session'.user, session'.recs)
      ]_vars

\* A second save has committed: a row of the first list that the second
\* list does not hold is gone, a row both lists hold is stored once, and
\* another player has rows.
C1_Witness ==
    /\ session.pc = "committed"
    /\ \E r \in BagToSet(session.deleted) : r \notin BagToSet(recommendations)
    /\ \E r \in BagToSet(session.deleted) :
          r \in BagToSet(recommendations) /\ recommendations[r] = 1
    /\ \E r \in BagToSet(recommendations) : r.steam_user_id # session.user

(***************************************************************************)
(* C2: at every point of a save, and after it, a reader of the player's   *)
(* stored recommendations gets the complete previous set (while the save  *)
(* runs and after a save that failed) or the complete new set (after the  *)
(* commit), never an intermediate set.                                    *)
(***************************************************************************)
C2_AtomicReplace ==
    /\ session.pc \in {"open", "rolled_back"}
          => get_saved_recommendations(session.user) = session.deleted
    /\ session.pc = "committed"
          => get_saved_recommendations(session.user)
                = RowsOfList(session.user, session.recs)

\* A save replacing a non-empty set has failed after adding one of its two
\* rows.
C2_Witness ==
    /\ session.pc = "rolled_back"
    /\ session.deleted # EmptyBag
    /\ Len(session.added) = 1 /\ Len(session.pending) = 1
    /\ RowsOfList(session.user, session.recs) # session.deleted

(***************************************************************************)
(* C3: after a recommendation request for a player the stored rows of the *)
(* player are exactly the set the request computed, whatever it holds.    *)
(***************************************************************************)
RequestDone ==
    /\ session.caller = "get_recommendations"
    /\ session.pc \in {"committed", "skipped"}

C3_StoredIsComputed ==
    RequestDone => get_saved_recommendations(session.user)
                      = RowsOfList(session.user, session.recs)

(***************************************************************************)
(* C3 amended: a request that computes a non-empty set leaves exactly     *)
(* that set stored for the player, whatever rows of whatever type were    *)
(* stored before; a request that computes an empty set leaves the stored  *)
(* rows as they were.                                                     *)
(***************************************************************************)
C3_StoredIsComputedUnlessEmpty ==
    [][ session'.caller = "get_recommendations"
          => /\ session'.pc = "committed"
                   => /\ session'.recs # << >>
                      /\ RecsOf(recommendations', session'.user)
                            = RowsOfList(session'.user, session'.recs)
             /\ session'.pc = "skipped"
                   => /\ session'.recs = << >>
                      /\ recommendations' = recommendations
      ]_vars

\* A request has replaced rows of another type, none of which is left.
C3_Witness ==
    /\ RequestDone /\ session.pc = "committed"
    /\ session.deleted # EmptyBag
    /\ \A r \in BagToSet(session.deleted) :
          /\ r \notin BagToSet(recommendations)
          /\ \A i \in 1 .. Len(session.added) :
                session.added[i].recommendation_type # r.recommendation_type

GamesOf(recs) == {recs[i].game : i \in 1 .. Len(recs)}

C12_NeverOwned ==
    session.caller = "get_recommendations"
       => GamesOf(session.collaborative) \cap owned(session.user) = {}

\* A collaborative request has returned games while a kept peer has played,
\* for more than the threshold, a game of the target.
C12_Witness ==
    /\ result.op = "get_recommendations" /\ session.type = "collaborative"
    /\ session.collaborative # << >>
    /\ \E p \in result.users : \E g \in owned(p) \cap owned(session.user) :
          user_games[p][g].playtime_forever > MinPlaytime

(***************************************************************************)
(* C13: get_collaborative_recommendations for a player without a feature  *)
(* row, or whose row has no vector, ends with a NoFeaturesError outcome.  *)
(***************************************************************************)
CollaborativeRequest ==
    /\ result.op = "get_recommendations"
    /\ session.type = "collaborative"

C13_NoFeaturesError ==
    (CollaborativeRequest /\ NoVector(session.user))
       => result.status = "NoFeaturesError"

(***************************************************************************)
(* C13 amended: for a player without a feature row, or whose row has no   *)
(* vector, get_collaborative_recommendations returns the empty list       *)
(* without looking at any peer and raises nothing: a collaborative        *)
(* request ends normally and stores nothing, a hybrid request goes on     *)
(* with the content-based list alone.                                     *)
(***************************************************************************)
C13_EmptyListWithoutFeatures ==
    (session.caller = "get_recommendations" /\ NoVector(session.user))
       => /\ session.collaborative = << >>
          /\ result.op = "get_recommendations"
                => result.status = "ok" /\ result.users = {}
          /\ session.type = "collaborative" => session.pc = "skipped"
          /\ session.type = "hybrid" =>
                GamesOf(session.recs) = GamesOf(session.content_based)

\* A collaborative request for a player whose row has no vector, while
\* another player with a vector has played an unowned game long enough.
C13_Witness ==
    /\ CollaborativeRequest
    /\ RowsOf(session.user) # {} /\ NoVector(session.user)
    /\ \E f \in ml_player_features :
          /\ f.steam_user_id # session.user /\ f.feature_vector # << >>
          /\ peer_candidates(session.user, f.steam_user_id) # {}

(***************************************************************************)
(* C14: a game of both the collaborative list (score a) and the           *)
(* content-based list (score b) is once in the fused list, with score     *)
(* a + b and the two reasons joined; it is in the returned list whenever  *)
(* the limit does not cut the fused list.                                 *)
(***************************************************************************)
HybridRequest ==
    /\ result.op = "get_recommendations"
    /\ session.type = "hybrid"

C14_FusedOnce ==
    HybridRequest =>
       LET a == session.collaborative
           b == session.content_based
           fused == session.recs
       IN  \A g \in GamesOf(a) \cap GamesOf(b) :
              /\ Cardinality({i \in 1 .. Len(fused) : fused[i].game = g}) <= 1
              /\ Cardinality(GamesOf(a) \cup GamesOf(b)) <= result.k
                    => InList(fused, g)
              /\ \A i \in 1 .. Len(fused) :
                    fused[i].game = g
                       => /\ fused[i].score = Entry(a, g).score + Entry(b, g).score
                          /\ fused[i].reason = Entry(a, g).reason \o Entry(b, g).reason
                          /\ Len(fused[i].reason) = 2

\* A hybrid request has fused a game of both lists, both scores positive,
\* with a game of one list.
C14_Witness ==
    /\ HybridRequest
    /\ Len(session.recs) >= 2
    /\ \E g \in GamesOf(session.collaborative) \cap GamesOf(session.content_based) :
          /\ InList(session.recs, g)
          /\ Entry(session.collaborative, g).score > 0
          /\ Entry(session.content_based, g).score > 0

(***************************************************************************)
(* C15: for a player with no achievement row, an extraction, in either    *)
(* path, does not fail on a division by zero, and the row it writes has   *)
(* completion_rate = 0 and achievement_rate = 0.                          *)
(***************************************************************************)
C15_ZeroAchievements ==
    [][ (result'.op \in ExtractionOps /\ user_achievements[result'.user].total = 0)
          => /\ result'.status # "ZeroDivisionError"
             /\ result'.status = "ok"
                   => \A r \in {x \in ml_player_features' :
                                   x.steam_user_id = result'.user} :
                         /\ r.completion_rate = 0
                         /\ r.achievement_rate = 0
                         /\ r.total_achievements = 0
      ]_vars

\* The scheduled path has just written the row of a player with games and
\* no achievement, and a row the service path wrote for such a player is
\* stored.
C15_Witness ==
    /\ result.op = "extract_ml_features" /\ result.status = "ok"
    /\ user_achievements[result.user].total = 0
    /\ \E r \in RowsOf(result.user) :
          r.total_games >= 1 /\ r.completion_rate = 0 /\ r.updated_at = now - 1
    /\ \E r \in ml_player_features :
          /\ r.top_genres.format = "object"
          /\ r.total_games >= 1
          /\ user_achievements[r.steam_user_id].total = 0
          /\ r.achievement_rate = 0

ScoresOf(recs) == {recs[i].score : i \in 1 .. Len(recs)}

C17_PositiveScores ==
    /\ \A r \in BagToSet(recommendations) : r.score > 0
    /\ session.caller = "get_recommendations"
          => \A score \in ScoresOf(session.collaborative)
                             \cup ScoresOf(session.content_based)
                             \cup ScoresOf(session.recs) : score > 0

(***************************************************************************)
(* C18: the games the collaborative recommender can return are exactly    *)
(* the games that a kept peer (one of at most ten) owns with more than 60 *)
(* minutes played and that the target does not own; the list is that set, *)
(* cut to the requested length.  With P owning A and B and three peers of *)
(* its cluster (A and C for 2h, C for 5h, D for half an hour) the list is *)
(* exactly C, scored from its two owners, and D is left out.             *)
(***************************************************************************)
PlayedByPeer(target, peers) ==
    {g \in Games :
        /\ g \notin DOMAIN user_games[target]
        /\ \E p \in peers :
              /\ g \in DOMAIN user_games[p]
              /\ user_games[p][g].playtime_forever > 60}

SameCluster(target) ==
    {f.steam_user_id : f \in
        {f \in ml_player_features :
            /\ f.steam_user_id # target
            /\ \E me \in RowsOf(target) : f.cluster_id = me.cluster_id}}

C19_PeerPool ==
    (/\ result.op = "get_recommendations"
     /\ session.type \in {"collaborative", "hybrid"}
     /\ ~NoVector(session.user))
       => LET target == session.user
              others == {f.steam_user_id : f \in ml_player_features} \ {target}
          IN  /\ target \notin result.users
              /\ IF SameCluster(target) # {}
                 THEN /\ result.users \subseteq SameCluster(target)
                      /\ GamesOf(session.collaborative)
                            \subseteq PlayedByPeer(target, SameCluster(target))
                 ELSE /\ result.users \subseteq others
                      /\ Cardinality(result.users) <= 50

\* A target without a cluster_id keeps a peer without one, while a player
\* of cluster 0 with a vector has played an unowned game that is not
\* recommended.
C19_Witness ==
    /\ CollaborativeRequest
    /\ \E me \in RowsOf(session.user) : me.cluster_id = << >>
    /\ result.users # {}
    /\ \E f \in ml_player_features :
          /\ f.cluster_id = <<0>>
          /\ f.feature_vector # << >>
          /\ f.steam_user_id \notin result.users
          /\ PlayedByPeer(session.user, {f.steam_user_id}) # {}
          /\ ~(PlayedByPeer(session.user, {f.steam_user_id})
                  \subseteq GamesOf(session.collaborative))

(***************************************************************************)
(* C20: every candidate the content-based recommender returns is scored   *)
(* (number of its genres among the target's top five) times (its critical *)
(* score / 100), for every known critical score from 0 to 100, 0 included.*)
(***************************************************************************)
C20_ContentScore ==
    session.caller = "get_recommendations"
       => \A i \in 1 .. Len(session.content_based) :
             LET rec == session.content_based[i]
                 overlap == rec.reason[1].genres
             IN  /\ overlap \subseteq game_genres(rec.game)
                 /\ rec.score
                      = (Cardinality(overlap)
                           * metacritic_score(rec.game)[1] * 1000) \div 100

(***************************************************************************)
(* C21: every game the content-based recommender returns is tagged with   *)
(* one of the target's top genres by playtime, is not owned by the        *)
(* target and has a known critical score; no game is listed twice, the    *)
(* scores do not increase along the list, and the list has at most N      *)
(* entries out of a pool of at most 50.                                   *)
(***************************************************************************)
PlayedGenres(u) ==
    UNION {game_genres(g) : g \in DOMAIN user_games[u]}

FuseScenario ==
    ("u1" :> ("B" :> UG(120, 60)))
    @@ ("u2" :> (("C" :> UG(120, 0)) @@ ("D" :> UG(120, 0))))
    @@ ("u3" :> ("A" :> UG(0, 0)))

InitFuse ==
    /\ user_games = FuseScenario
    /\ user_achievements = [u \in Users |-> NoAchievements]
    /\ ml_player_features \in
          {store \in Stores({<< >>, <<0>>}) :
              \A r \in store : r.feature_vector # << >>}
    /\ recommendations = EmptyBag
    /\ session = NoSession
    /\ now = 0
    /\ result = Outcome("init", "", "ok", 0, {})

SpecFuse == InitFuse /\ [][NextRec]_vars

(***************************************************************************)
(* C22: in the hybrid fusion a game of only one source list is in the     *)
(* merged set with the score and the reason it has in that list, and the  *)
(* two source lists are after the fusion what the two recommenders        *)
(* returned.                                                              *)
(***************************************************************************)
KeptAsIs(fused, list, other) ==
    \A g \in GamesOf(list) \ GamesOf(other) :
       /\ Cardinality(GamesOf(list) \cup GamesOf(other)) <= result.k
             => InList(fused, g)
       /\ \A i \in 1 .. Len(fused) :
             fused[i].game = g
                => /\ fused[i].score = Entry(list, g).score
                   /\ fused[i].reason = Entry(list, g).reason

C22_SingleSourceKept ==
    HybridRequest =>
       /\ KeptAsIs(session.recs, session.collaborative, session.content_based)
       /\ KeptAsIs(session.recs, session.content_based, session.collaborative)
       /\ session.collaborative
             \in get_collaborative_recommendations(session.user, result.k)
       /\ session.content_based
             \in get_content_based_recommendations(session.user, result.k)

\* A hybrid request has merged a game of the collaborative list alone, a
\* game of the content-based list alone and a game of both.
C22_Witness ==
    /\ HybridRequest
    /\ GamesOf(session.collaborative) \ GamesOf(session.content_based) # {}
    /\ GamesOf(session.content_based) \ GamesOf(session.collaborative) # {}
    /\ GamesOf(session.content_based) \cap GamesOf(session.collaborative) # {}
    /\ GamesOf(session.recs)
          = GamesOf(session.collaborative) \cup GamesOf(session.content_based)

(***************************************************************************)
(* C23: the list get_hybrid_recommendations(player, N) returns holds each *)
(* game at most once, in order of non-increasing fused score, has at most *)
(* N entries, which are N highest-scoring games of the union of the two   *)
(* source lists, and every entry is tagged hybrid whatever its origin.    *)
(***************************************************************************)
FusedScore(g) ==
    (IF InList(session.collaborative, g)
     THEN Entry(session.collaborative, g).score ELSE 0)
    + (IF InList(session.content_based, g)
       THEN Entry(session.content_based, g).score ELSE 0)

C23_HybridList ==
    HybridRequest =>
       LET fused == session.recs
           union == GamesOf(session.collaborative) \cup GamesOf(session.content_based)
       IN  /\ \A i, j \in 1 .. Len(fused) :
                 /\ i # j => fused[i].game # fused[j].game
                 /\ i < j => fused[i].score >= fused[j].score
           /\ Len(fused) = Min(result.k, Cardinality(union))
           /\ \A i \in 1 .. Len(fused) :
                 /\ fused[i].game \in union
                 /\ fused[i].score = FusedScore(fused[i].game)
                 /\ fused[i].recommendation_type = "hybrid"
                 /\ \A g \in union \ GamesOf(fused) :
                       FusedScore(g) <= fused[i].score

\* A hybrid request for one game has dropped a game of lower fused score.
C23_Witness ==
    /\ HybridRequest
    /\ result.k = 1
    /\ Len(session.recs) = 1
    /\ \E g \in GamesOf(session.collaborative) \cup GamesOf(session.content_based) :
          /\ g \notin GamesOf(session.recs)
          /\ FusedScore(g) < session.recs[1].score
          /\ FusedScore(g) > 0

(***************************************************************************)
(* MLService._determine_cluster_type, called by _analyze_clusters with    *)
(* the means of a cluster's rows.  The four means are floats, kept here   *)
(* in thousandths.                                                        *)
(***************************************************************************)
\* Mutant: the Dedicated Gamer test comes before the Diverse Explorer one.
determine_cluster_type_reordered(avg_playtime, avg_games, avg_completion, avg_diversity) ==
    IF avg_playtime > Fx(50000) /\ avg_completion > Fx(50)
    THEN "Hardcore Completionist"
    ELSE IF avg_playtime > Fx(30000) THEN "Dedicated Gamer"
    ELSE IF avg_playtime > Fx(30000) /\ avg_diversity > 700 THEN "Diverse Explorer"
    ELSE IF avg_games > Fx(200) /\ avg_playtime < Fx(10000) THEN "Collector"
    ELSE IF avg_completion > Fx(60) THEN "Achievement Hunter"
    ELSE IF avg_diversity > 800 THEN "Genre Explorer"
    ELSE IF avg_playtime < Fx(5000) THEN "Casual Player"
    ELSE "Regular Gamer"

determine_cluster_type(avg_playtime, avg_games, avg_completion, avg_diversity) ==
    IF avg_playtime > Fx(50000) /\ avg_completion > Fx(50)
    THEN "Hardcore Completionist"
    ELSE IF avg_playtime > Fx(30000) /\ avg_diversity > 700 THEN "Diverse Explorer"
    ELSE IF avg_playtime > Fx(30000) THEN "Dedicated Gamer"
    ELSE IF avg_games > Fx(200) /\ avg_playtime < Fx(10000) THEN "Collector"
    ELSE IF avg_completion > Fx(60) THEN "Achievement Hunter"
    ELSE IF avg_diversity > 800 THEN "Genre Explorer"
    ELSE IF avg_playtime < Fx(5000) THEN "Casual Player"
    ELSE "Regular Gamer"

\* the means around each threshold of the rules
PlaytimeMeans ==
    {0, Fx(5000) - 1, Fx(5000), Fx(10000) - 1, Fx(10000),
     Fx(30000), Fx(30000) + 1, Fx(50000), Fx(50000) + 1}

GameMeans == {0, Fx(200), Fx(200) + 1}

CompletionMeans == {0, Fx(50), Fx(50) + 1, Fx(60), Fx(60) + 1, Fx(100)}

DiversityMeans == {0, 700, 701, 800, 801, 1000}

\* one call of the classifier: a cluster without games has no playtime
analyze_cluster(avg_playtime, avg_games, avg_completion, avg_diversity) ==
    /\ avg_games = 0 => avg_playtime = 0
    /\ result' = [op |-> "_determine_cluster_type", user |-> "", status |-> "ok",
                  k |-> 0, users |-> {},
                  avg_playtime |-> avg_playtime,
                  avg_games |-> avg_games,
                  avg_completion |-> avg_completion,
                  avg_diversity |-> avg_diversity,
                  cluster_type |-> determine_cluster_type(
                      avg_playtime, avg_games, avg_completion, avg_diversity)]
    /\ UNCHANGED <<user_games, user_achievements, ml_player_features,
                   recommendations, session, now>>

NextType ==
    \E avg_playtime \in PlaytimeMeans : \E avg_games \in GameMeans :
       \E avg_completion \in CompletionMeans : \E avg_diversity \in DiversityMeans :
          analyze_cluster(avg_playtime, avg_games, avg_completion, avg_diversity)

SpecType == Init /\ [][NextType]_vars

(***************************************************************************)
(* C24: the archetype is the label of the first rule, in the order        *)
(* Hardcore Completionist, Diverse Explorer, Dedicated Gamer, Collector,  *)
(* Achievement Hunter, Genre Explorer, Casual Player, that the four means *)
(* satisfy, and Regular Gamer exactly when they satisfy none.             *)
(***************************************************************************)
ArchetypeOrder ==
    << "Hardcore Completionist", "Diverse Explorer", "Dedicated Gamer",
       "Collector", "Achievement Hunter", "Genre Explorer", "Casual Player" >>

RuleMatches(label, a) ==
    CASE label = "Hardcore Completionist" ->
            a.avg_playtime > 50000000 /\ a.avg_completion > 50000
      [] label = "Diverse Explorer" ->
            a.avg_playtime > 30000000 /\ a.avg_diversity > 700
      [] label = "Dedicated Gamer" -> a.avg_playtime > 30000000
      [] label = "Collector" ->
            a.avg_games > 200000 /\ a.avg_playtime < 10000000
      [] label = "Achievement Hunter" -> a.avg_completion > 60000
      [] label = "Genre Explorer" -> a.avg_diversity > 800
      [] label = "Casual Player" -> a.avg_playtime < 5000000

C24_FirstMatchingRule ==
    result.op = "_determine_cluster_type" =>
       LET matching == {i \in 1 .. Len(ArchetypeOrder) :
                           RuleMatches(ArchetypeOrder[i], result)}
       IN  /\ matching = {} <=> result.cluster_type = "Regular Gamer"
           /\ \A i \in matching :
                 (\A j \in matching : i <= j)
                    => result.cluster_type = ArchetypeOrder[i]

\* The means satisfy the Diverse Explorer rule and three later rules, and
\* the first of them gives the label.
C24_Witness ==
    /\ result.op = "_determine_cluster_type"
    /\ result.cluster_type = "Diverse Explorer"
    /\ RuleMatches("Dedicated Gamer", result)
    /\ RuleMatches("Achievement Hunter", result)
    /\ RuleMatches("Genre Explorer", result)
    /\ ~RuleMatches("Hardcore Completionist", result)

(***************************************************************************)
(* Two recommendation requests at once, each with the session and the     *)
(* transaction of its own (PostgreSQL, READ COMMITTED).  Here session is  *)
(* a function from the two requests to their session records.  The        *)
(* DELETE of a request acts on the rows committed when it starts; when    *)
(* the other request has deleted the same rows and not yet ended, the     *)
(* statement waits for it and then removes those of its rows that still   *)
(* exist, never rows the other request added: the record keeps the rows   *)
(* the statement saw and the commit removes those still stored.           *)
(***************************************************************************)
Requests == {"r1", "r2"}

concurrent_get_recommendations(rid, u, recommendation_type, limit) ==
    /\ session[rid].pc = "idle"
    /\ \E run \in request_runs(u, recommendation_type, limit) :
          LET request == [NoSession EXCEPT
                             !.caller = "get_recommendations",
                             !.type = recommendation_type,
                             !.collaborative = run.collaborative,
                             !.content_based = run.content_based,
                             !.user = u, !.recs = run.recs]
          IN  /\ result' = Outcome("get_recommendations", u, "ok", limit, run.peers)
              /\ session' = [session EXCEPT ![rid] =
                    IF run.recs # << >>
                    THEN [request EXCEPT
                             !.pc = "open", !.pending = run.recs,
                             !.deleted = RecsOf(recommendations, u)]
                    ELSE [request EXCEPT !.pc = "skipped"]]
    /\ UNCHANGED <<user_games, user_achievements, ml_player_features,
                   recommendations, now>>

concurrent_save_add(rid) ==
    /\ session[rid].pc = "open" /\ session[rid].pending # << >>
    /\ session' = [session EXCEPT ![rid] =
          [@ EXCEPT !.pending = Tail(@),
                    !.added = Append(session[rid].added,
                                     RecommendationRow(session[rid].user,
                                                       Head(session[rid].pending)))]]
    /\ result' = Outcome("save_recommendations", session[rid].user, "adding", 0, {})
    /\ UNCHANGED <<user_games, user_achievements, ml_player_features,
                   recommendations, now>>

concurrent_save_commit(rid) ==
    /\ session[rid].pc = "open" /\ session[rid].pending = << >>
    /\ recommendations' = commit_rows(recommendations, session[rid].deleted,
                                      session[rid].added)
    /\ session' = [session EXCEPT ![rid] = [@ EXCEPT !.pc = "committed"]]
    /\ result' = Outcome("save_recommendations", session[rid].user, "ok", 0, {})
    /\ UNCHANGED <<user_games, user_achievements, ml_player_features, now>>

\* an exception before the commit: the request's transaction is rolled back
concurrent_save_fail(rid) ==
    /\ session[rid].pc = "open"
    /\ session' = [session EXCEPT ![rid] = [@ EXCEPT !.pc = "rolled_back"]]
    /\ result' = Outcome("save_recommendations", session[rid].user, "exception", 0, {})
    /\ UNCHANGED <<user_games, user_achievements, ml_player_features,
                   recommendations, now>>

InitConcurrent ==
    /\ user_games = FuseScenario
    /\ user_achievements = [u \in Users |-> NoAchievements]
    /\ ml_player_features \in
          {store \in Stores({<< >>}) :
              /\ Cardinality(store) = Cardinality(Users)
              /\ \A r \in store : r.feature_vector # << >>}
    /\ recommendations \in
          { EmptyBag,
            SetToBag({RecommendationRow("u1",
                        Rec("A", 900, "content_based",
                            << ReasonPart("Matches your favorite genres",
                                          {"Action"}) >>))}) }
    /\ session = [rid \in Requests |-> NoSession]
    /\ now = 0
    /\ result = Outcome("init", "", "ok", 0, {})

NextConcurrent ==
    \E rid \in Requests :
       \/ \E u \in SavedPlayers : \E recommendation_type \in RecommendationTypes :
             \E limit \in Limits :
                concurrent_get_recommendations(rid, u, recommendation_type, limit)
       \/ concurrent_save_add(rid)
       \/ concurrent_save_commit(rid)
       \/ concurrent_save_fail(rid)

SpecConcurrent == InitConcurrent /\ [][NextConcurrent]_vars

(***************************************************************************)
(* C25: when two requests for one player run at once, both having seen    *)
(* the same stored rows when they deleted, the rows stored for the player *)
(* after both have committed are the rows of one of the two requests,     *)
(* never those of both.                                                   *)
(***************************************************************************)
C25_OneRequestWins ==
    (/\ session["r1"].pc = "committed"
     /\ session["r2"].pc = "committed"
     /\ session["r1"].user = session["r2"].user
     /\ session["r1"].deleted = session["r2"].deleted)
       => RecsOf(recommendations, session["r1"].user)
             \in {SeqToBag(session["r1"].added), SeqToBag(session["r2"].added)}

(***************************************************************************)
(* A feature extraction and a clustering run, each in a session and a     *)
(* transaction of its own, a statement at a time.  Here session is        *)
(*   [cluster |-> the clustering run, extract |-> the extraction]         *)
(* and each keeps the rows it loaded.  An ORM flush writes the columns    *)
(* whose value differs from the loaded one, not the whole object.         *)
(***************************************************************************)
\* Mutant: the flush writes every column of the object.
flush_update_full(current, loaded, object) == object

\* UPDATE ... SET <changed columns> WHERE id = ...: the stored row after
\* the flush of an object loaded as `loaded`
flush_update(current, loaded, object) ==
    [c \in DOMAIN current |->
        IF object[c] # loaded[c] THEN object[c] ELSE current[c]]

ExtractionPaths == {"save_user_features", "extract_ml_features"}

IdleRun == [pc |-> "idle", status |-> "", user |-> "", path |-> "",
            loaded |-> {}, clusters |-> << >>,
            features |-> << >>, feature_vector |-> << >>]

\* cluster_players up to fit_predict: the rows are loaded, the labels chosen
cluster_players_load(n_clusters) ==
    /\ session.cluster.pc = "idle"
    /\ LET all_features == ml_player_features
           run == {f \in all_features : f.feature_vector # << >>}
           user_ids == {f.steam_user_id : f \in run}
       IN  IF Cardinality(all_features) < n_clusters \/ run = {}
           THEN /\ result' = Outcome("cluster_players", "", "error", n_clusters, {})
                /\ session' = [session EXCEPT !.cluster =
                                  [IdleRun EXCEPT !.pc = "done", !.status = "error"]]
           ELSE IF Cardinality(run) < n_clusters
           THEN /\ result' = Outcome("cluster_players", "", "ValueError", n_clusters, {})
                /\ session' = [session EXCEPT !.cluster =
                                  [IdleRun EXCEPT !.pc = "done", !.status = "ValueError"]]
           ELSE \E clusters \in KMeans_fit_predict(user_ids, n_clusters) :
                /\ result' = Outcome("cluster_players", "", "loaded", n_clusters, user_ids)
                /\ session' = [session EXCEPT !.cluster =
                                  [IdleRun EXCEPT !.pc = "loaded", !.loaded = run,
                                                  !.clusters = clusters]]
    /\ UNCHANGED <<user_games, user_achievements, ml_player_features,
                   recommendations, now>>

\* the assignments to the loaded objects and self.db.commit()
cluster_players_commit ==
    /\ session.cluster.pc = "loaded"
    /\ Tick
    /\ ml_player_features' =
          { IF \E l \in session.cluster.loaded : l.steam_user_id = r.steam_user_id
            THEN LET l == CHOOSE l \in session.cluster.loaded :
                             l.steam_user_id = r.steam_user_id
                 IN  flush_update(r, l,
                        assign_cluster(l, session.cluster.clusters[l.steam_user_id],
                                       now))
            ELSE r : r \in ml_player_features }
    /\ session' = [session EXCEPT !.cluster.pc = "done", !.cluster.status = "ok"]
    /\ result' = Outcome("cluster_players", "", "ok", 0,
                         {l.steam_user_id : l \in session.cluster.loaded})
    /\ UNCHANGED <<user_games, user_achievements, recommendations>>

\* the feature records an extraction can compute for a player, by path
computed_features(path, u) ==
    LET dist == get_genre_playtime_distribution(u)
    IN  IF path = "save_user_features"
        THEN { extract_user_features(u, fav) : fav \in FavoriteChoices(dist) }
        ELSE UNION { { dag_features(u, top, fav) :
                         fav \in FavoriteChoices([n \in top |-> dist[n]]) } :
                     top \in TopGenreSets(dist, GenreLimit) }

\* an extraction up to its write: the upstream rows are read, the features
\* computed and, in the service, the stored row loaded
extraction_load(path, u) ==
    /\ session.extract.pc = "idle"
    /\ \/ \E f \in computed_features(path, u) :
                LET status == IF division_raises(u) THEN "ZeroDivisionError"
                              ELSE IF path = "extract_ml_features"
                                      /\ ~json_serializable(f) THEN "TypeError"
                              ELSE "loaded"
                IN  /\ session' = [session EXCEPT !.extract =
                          [IdleRun EXCEPT
                              !.pc = IF status = "loaded" THEN "loaded" ELSE "done",
                              !.status = status, !.user = u, !.path = path,
                              !.loaded = IF path = "save_user_features"
                                         THEN existing_features(u) ELSE {},
                              !.features = f,
                              !.feature_vector = feature_vector_of(f)]]
                    /\ result' = Outcome(path, u, status, 0, {})
       \/ /\ session' = [session EXCEPT !.extract =
                 [IdleRun EXCEPT !.pc = "done", !.status = "read_failed",
                                 !.user = u, !.path = path]]
          /\ result' = Outcome(path, u, "read_failed", 0, {})
    /\ UNCHANGED <<user_games, user_achievements, ml_player_features,
                   recommendations, now>>

\* the write of the extraction and its commit
extraction_commit ==
    /\ session.extract.pc = "loaded"
    /\ Tick
    /\ LET u == session.extract.user
           f == session.extract.features
           fv == session.extract.feature_vector
           path == session.extract.path
           conflict == path = "save_user_features"
                       /\ session.extract.loaded = {} /\ RowsOf(u) # {}
       IN  /\ ml_player_features' =
                IF conflict THEN ml_player_features
                ELSE IF RowsOf(u) = {}
                THEN ml_player_features \cup {insert_features(u, f, fv, now)}
                ELSE (ml_player_features \ RowsOf(u))
                     \cup { IF path = "save_user_features"
                            THEN LET l == CHOOSE l \in session.extract.loaded : TRUE
                                 IN  flush_update(r, l, update_features(l, f, fv, now))
                            ELSE on_conflict_update(r, f, fv, now) :
                            r \in RowsOf(u) }
           /\ session' = [session EXCEPT
                             !.extract.pc = "done",
                             !.extract.status =
                                IF conflict THEN "IntegrityError" ELSE "ok"]
           /\ result' = Outcome(path, u,
                                IF conflict THEN "IntegrityError" ELSE "ok", 0, {})
    /\ UNCHANGED <<user_games, user_achievements, recommendations>>

\* the row of a player whose features were extracted before the first sync
\* of the library: no games, no genres, no achievements
NotYetSynced(u, labels) ==
    LET f == [ total_games |-> 0, total_playtime |-> 0,
               avg_playtime_per_game |-> 0, games_played |-> 0,
               games_never_played |-> 0, completion_rate |-> 0,
               total_achievements |-> 0, achievement_rate |-> 0,
               favorite_genre |-> << >>, genre_diversity_score |-> 0,
               top_genres |-> [format |-> "object", items |-> {}],
               activity_score |-> 0 ]
    IN  { NewRow(u, f, feature_vector_of(f), cluster, 0) : cluster \in labels }

\* every player has a row with a vector, extracted before or after the sync
\* of the library, labelled or not
InterleaveStores ==
    LET rows(u) == NotYetSynced(u, {<< >>, <<1>>})
                   \cup {r \in StoredRows(u, {<< >>, <<1>>}) :
                            r.feature_vector # << >>}
    IN  { {r1, r2, r3} :
            r1 \in rows("u1"), r2 \in rows("u2"), r3 \in NotYetSynced("u3", {<< >>}) }

InitInterleave ==
    /\ user_games = StoredLibraries
    /\ user_achievements = [u \in Users |-> NoAchievements]
    /\ ml_player_features \in InterleaveStores
    /\ recommendations = EmptyBag
    /\ session = [cluster |-> IdleRun, extract |-> IdleRun]
    /\ now = 0
    /\ result = Outcome("init", "", "ok", 0, {})

NextInterleave ==
    \/ \E k \in MinClusters .. MaxClusters : cluster_players_load(k)
    \/ cluster_players_commit
    \/ \E path \in ExtractionPaths : \E u \in Users : extraction_load(path, u)
    \/ extraction_commit

SpecInterleave == InitInterleave /\ [][NextInterleave]_vars

(***************************************************************************)
(* C26: however an extraction for a player and a clustering run that      *)
(* includes the player interleave, once both have finished the player's   *)
(* row holds the feature columns and the vector the extraction computed   *)
(* and the label the clustering run chose.                                *)
(***************************************************************************)
BothFinished ==
    /\ session.cluster.pc = "done" /\ session.cluster.status = "ok"
    /\ session.extract.pc = "done" /\ session.extract.status = "ok"
    /\ session.extract.user \in DOMAIN session.cluster.clusters

C26_NeitherWriteLost ==
    BothFinished =>
       \A r \in RowsOf(session.extract.user) :
          /\ r.cluster_id = << session.cluster.clusters[session.extract.user] >>
          /\ r.feature_vector = session.extract.feature_vector
          /\ \A c \in FeatureColumns : r[c] = session.extract.features[c]

\* The clustering run loaded the player's row, the extraction then changed
\* its features, and the run then stored a new label.
C26_Witness ==
    /\ BothFinished
    /\ result.op = "cluster_players"
    /\ \E r \in RowsOf(session.extract.user) :
          \E l \in session.cluster.loaded :
             /\ l.steam_user_id = r.steam_user_id
             /\ l.feature_vector # r.feature_vector
             /\ l.total_games # r.total_games
             /\ l.cluster_id # r.cluster_id

(***************************************************************************)
(* C27: for the same player and the same upstream rows the scheduled job  *)
(* extract_ml_features stores the row save_user_features stores: same     *)
(* counts, favorite_genre, genres and playtimes in top_genres, diversity  *)
(* and vector.                                                            *)
(***************************************************************************)
C27_SameRow ==
    (result.op = "extract_ml_features" /\ result.status # "read_failed")
       => /\ RowsOf(result.user) # {}
          /\ \A r \in RowsOf(result.user) :
                \E f \in computed_features("save_user_features", result.user) :
                   /\ r.feature_vector = feature_vector_of(f)
                   /\ r.top_genres.items = f.top_genres.items
                   /\ \A c \in FeatureColumns \ {"top_genres"} : r[c] = f[c]

(***************************************************************************)
(* C28: in every reachable state the stored Recommendation rows of one    *)
(* player all carry the same recommendation_type: rows of different      *)
(* types never coexist for a player.                                      *)
(***************************************************************************)
C28_OneTypePerPlayer ==
    \A r, o \in BagToSet(recommendations) :
       o.steam_user_id = r.steam_user_id
          => o.recommendation_type = r.recommendation_type

(***************************************************************************)
(* C29: in every extracted feature row completion_rate is 100 times       *)
(* achievement_rate, achievement_rate lies in 0..1 and completion_rate in *)
(* 0..100, and so the fifth and the sixth component of the vector are     *)
(* equal.  (Rates are in thousandths.)                                    *)
(***************************************************************************)
C29_RatesAgree ==
    \A r \in ml_player_features :
       /\ r.completion_rate = 100 * r.achievement_rate
       /\ 0 <= r.achievement_rate /\ r.achievement_rate <= 1000
       /\ 0 <= r.completion_rate /\ r.completion_rate <= 100000
       /\ r.feature_vector # << >> => r.feature_vector[5] = r.feature_vector[6]

\* A row extracted for a player who has unlocked some but not all of the
\* achievements.
C29_Witness ==
    \E r \in ml_player_features :
       /\ r.achievement_rate > 0 /\ r.achievement_rate < 1000
       /\ r.feature_vector[5] = r.completion_rate
       /\ r.feature_vector[6] > 0

(***************************************************************************)
(* Extraction over libraries in which a record has no cumulative          *)
(* playtime: game_data.get('playtime_forever', 0) is None when the answer *)
(* carries the key with a null, and the column takes it.                  *)
(***************************************************************************)
FetchedWithNull ==
    { ("A" :> UG(Missing, 0)),
      ("B" :> UG(120, 60)) @@ ("C" :> UG(Missing, 0)),
      ("A" :> UG(0, 0)) @@ ("B" :> UG(120, 60)) }

NextMissing ==
    \/ \E u \in Users : \E games_data \in FetchedWithNull :
          sync_user_games(u, games_data)
    \/ \E u \in Users : save_user_features(u)
    \/ \E u \in Users : extract_ml_features(u)

SpecMissing == Init /\ [][NextMissing]_vars

(***************************************************************************)
(* C30: in every extracted feature row games_played + games_never_played  *)
(* = total_games, whatever the owned-game records, records without a      *)
(* cumulative playtime included.                                          *)
(***************************************************************************)
C30_PlayedPlusNeverPlayed ==
    \A r \in ml_player_features :
       r.games_played + r.games_never_played = r.total_games

====
